---------------------------- MODULE Spec2Model ----------------------------
(***************************************************************************)
(* CNS11643-OpenData: the update checker (scripts/check_update.py), the    *)
(* syncer (scripts/sync_cns11643.py) and the verifier                      *)
(* (scripts/verify_data.py) as state machines over the files they share.   *)
(*                                                                         *)
(* Text is a sequence of tokens.  The tokens of a release descriptor are   *)
(*   "VER"  the two-character version word of the marker (U+7248 U+672C),  *)
(*   "FC"   the fullwidth colon U+FF1A,   ":"  the ASCII colon,            *)
(*   "1" "2"  payload characters,  " "  a blank,                           *)
(*   "\n"   a newline,  "\f"  a form feed (a line boundary for             *)
(*          str.splitlines, not for the iteration over a text file).       *)
(* A version is the token sequence the parser returns; <<>> is ''.         *)
(***************************************************************************)
EXTENDS Naturals, Integers, Sequences, FiniteSets, TLC

VARIABLES
    remote_date,      \* result.modifiedDate served by the metadata API
    remote_release,   \* text of <base url>/release.txt
    metadata_file,    \* root/sync_metadata.json
    release_txt,      \* root/release.txt
    run,              \* the last process run: its inputs, outputs and exit
    now,              \* logical clock: the number of sync runs started
    remote_changes,   \* the number of changes of the remote so far
    sync_log,         \* the clock values of the sync runs that succeeded
    text,             \* parser input (SpecParse)
    parsed,           \* parser results (SpecParse)
    fs,               \* the tree under the project root: path -> kind
    fs_edits,         \* the number of changes made to that tree
    dest,             \* an extraction directory under Tables/
    ext,              \* the last extraction: its archive and the directory before
    size,             \* a byte count, as its digits in base 1024, lowest first
    formatted,        \* what _format_size printed for it
    procs,            \* concurrent sync runs: position and the metadata each loaded
    root_zips,        \* the archive files under the root path
    tables,           \* the extraction directories under Tables/
    processed         \* the last call of _download_and_process on an archive

pipeVars == <<remote_date, remote_release, metadata_file, release_txt, run, now,
              remote_changes, sync_log>>
parseVars == <<text, parsed>>
verifyVars == <<fs, fs_edits>>
extractVars == <<dest, ext>>
formatVars == <<size, formatted>>
raceVars == <<procs>>
archiveVars == <<root_zips, tables, processed>>
restVars == <<formatVars, raceVars, archiveVars>>
notPipeVars == <<parseVars, verifyVars, extractVars, restVars>>
notParseVars == <<pipeVars, verifyVars, extractVars, restVars>>
vars == <<pipeVars, parseVars, verifyVars, extractVars, restVars>>

(***************************************************************************)
(* Bounds.                                                                 *)
(***************************************************************************)
MaxSyncs == 2
MaxRemoteChanges == 1
MaxHistorySyncs == 12
MaxTextLen == 5
MaxEdits == 2

(***************************************************************************)
(* Helpers.                                                                *)
(***************************************************************************)
SetMin(S) == CHOOSE m \in S : \A n \in S : m <= n
SetMax(S) == CHOOSE m \in S : \A n \in S : n <= m
Range(s) == {s[i] : i \in 1..Len(s)}

\* dict.get(key, default)
Get(d, key, default) == IF key \in DOMAIN d THEN d[key] ELSE default

\* dict.update(other)
Update(d, other) ==
    [k \in DOMAIN d \cup DOMAIN other |-> IF k \in DOMAIN other THEN other[k] ELSE d[k]]

\* the empty mapping {}
EmptyDict == <<>>

(***************************************************************************)
(* The version parser: check_update.get_remote_release_version and         *)
(* CNS11643Syncer._parse_release_version.                                  *)
(***************************************************************************)
Whitespace == {" ", "\n", "\f"}
SplitlinesBoundaries == {"\n", "\f"}

\* `pat in line`
Contains(line, pat) ==
    \E i \in 1..(Len(line) + 1 - Len(pat)) : SubSeq(line, i, i + Len(pat) - 1) = pat

\* str.split(sep) for a one-character separator: every part, empty ones too
RECURSIVE Split(_, _)
Split(s, sep) ==
    IF \E i \in 1..Len(s) : s[i] = sep
    THEN LET i == SetMin({j \in 1..Len(s) : s[j] = sep})
         IN  <<SubSeq(s, 1, i - 1)>> \o Split(SubSeq(s, i + 1, Len(s)), sep)
    ELSE <<s>>

\* str.strip()
Strip(s) ==
    LET keep == {i \in 1..Len(s) : s[i] \notin Whitespace}
    IN  IF keep = {} THEN <<>> ELSE SubSeq(s, SetMin(keep), SetMax(keep))

\* str.splitlines(): breaks at every line boundary and drops the boundary
RECURSIVE splitlines(_)
splitlines(s) ==
    IF \E i \in 1..Len(s) : s[i] \in SplitlinesBoundaries
    THEN LET i == SetMin({j \in 1..Len(s) : s[j] \in SplitlinesBoundaries})
         IN  <<SubSeq(s, 1, i - 1)>> \o splitlines(SubSeq(s, i + 1, Len(s)))
    ELSE IF s = <<>> THEN <<>> ELSE <<s>>

\* `for line in f` on a text file: breaks at newlines only and keeps them
RECURSIVE FileLines(_)
FileLines(s) ==
    IF \E i \in 1..Len(s) : s[i] = "\n"
    THEN LET i == SetMin({j \in 1..Len(s) : s[j] = "\n"})
         IN  <<SubSeq(s, 1, i)>> \o FileLines(SubSeq(s, i + 1, Len(s)))
    ELSE IF s = <<>> THEN <<>> ELSE <<s>>

HasMarker(line) == Contains(line, <<"VER", "FC">>) \/ Contains(line, <<"VER", ":">>)

\* parts = line.split(FC) if FC in line else line.split(':')
SplitBadDelimiter(line) == IF Contains(line, <<":">>) THEN Split(line, ":") ELSE Split(line, "FC")
LineParts(line) == IF Contains(line, <<"FC">>) THEN Split(line, "FC") ELSE Split(line, ":")

\* the loop body shared by both variants: the first line with the marker
\* and at least two parts yields parts[1].strip(); no such line yields ''
RECURSIVE ScanLines(_)
ScanLines(lines) ==
    IF lines = <<>> THEN <<>>
    ELSE LET line == Head(lines)
         IN  IF HasMarker(line) /\ Len(LineParts(line)) >= 2
             THEN Strip(LineParts(line)[2])
             ELSE ScanLines(Tail(lines))

get_remote_release_version(body) == ScanLines(splitlines(body))

\* file: [kind |-> "absent"] or [kind |-> "file", text |-> ...]
parse_release_version(file) ==
    IF file.kind = "absent" THEN <<>> ELSE ScanLines(FileLines(file.text))

(***************************************************************************)
(* Configuration (scripts/config.py) and the remote site.                  *)
(***************************************************************************)
sync_files == <<"release.txt", "OpenDataFilesList.csv", "MapingTables.zip", "Properties.zip">>
HistoryLimit == 10

RemoteDates == {"", "2025-11-12"}
RelFullwidth == <<"VER", "FC", "1", "\n", "1", "FC", "2">>
RelAscii == <<"VER", ":", "2">>
RelNoVersion == <<"1", "2">>
RelFormFeed == <<"VER", "FC", "1", "\f", "2">>
Releases == {RelFullwidth, RelAscii, RelNoVersion, RelFormFeed}

\* what the base url serves for each file
RemoteContent(filename, release) ==
    IF filename = "release.txt" THEN release ELSE <<filename>>

Absent == [kind |-> "absent"]
Malformed == [kind |-> "malformed"]
JsonFile(d) == [kind |-> "json", data |-> d]
TextFile(t) == [kind |-> "file", text |-> t]

(***************************************************************************)
(* check_update.main                                                       *)
(***************************************************************************)
FetchFaults == {"none", "api", "release"}

\* str(has_update).lower()
BoolStr(b) == IF b THEN "true" ELSE "false"

\* the if/elif chain of main
HasUpdateIgnoringDate(force_download, current_version, api_modified_date, current_api_date, remote_version) ==
    IF force_download THEN TRUE
    ELSE IF current_version = <<>> THEN TRUE
    ELSE remote_version # current_version
HasUpdate(force_download, current_version, api_modified_date, current_api_date, remote_version) ==
    IF force_download THEN TRUE
    ELSE IF current_version = <<>> THEN TRUE
    ELSE IF api_modified_date # current_api_date THEN TRUE
    ELSE IF remote_version # current_version THEN TRUE
    ELSE FALSE

\* the outcome of one run of main: force_download is the configured flag,
\* fault the remote fetch that raises (if any)
\* the except branch of main: set_github_output('has_update', 'false')
FailureOutputsObeyingForce(force_download, fault) == <<<<"has_update", BoolStr(force_download)>>>>
FailureOutputs(force_download, fault) == <<<<"has_update", "false">>>>

\* the four set_github_output calls that end main
DecidedOutputsOnlyOnUpdate(has_update, remote_version, current_version, api_modified_date) ==
    IF has_update
    THEN << <<"has_update", "true">>, <<"new_version", remote_version>>,
            <<"current_version", current_version>>,
            <<"api_modified_date", api_modified_date>> >>
    ELSE << <<"has_update", "false">> >>
DecidedOutputs(has_update, remote_version, current_version, api_modified_date) ==
    << <<"has_update", BoolStr(has_update)>>, <<"new_version", remote_version>>,
       <<"current_version", current_version>>, <<"api_modified_date", api_modified_date>> >>

CheckRun(force_download, fault) ==
    IF fault # "none"
    THEN [proc |-> "check", status |-> "fetch_failed", rc |-> 1,
          force_download |-> force_download, fault |-> fault,
          outputs |-> FailureOutputs(force_download, fault)]
    ELSE IF metadata_file.kind = "malformed"
    THEN \* json.load raises in get_current_metadata; nothing catches it
         [proc |-> "check", status |-> "exception", rc |-> 1,
          force_download |-> force_download, fault |-> fault,
          outputs |-> <<>>]
    ELSE LET api_modified_date == remote_date
             remote_version == get_remote_release_version(remote_release)
             metadata == IF metadata_file.kind = "json" THEN metadata_file.data
                         ELSE EmptyDict
             current_version == Get(metadata, "release_version", <<>>)
             current_api_date == Get(metadata, "api_modified_date", "")
             has_update == HasUpdate(force_download, current_version,
                                     api_modified_date, current_api_date,
                                     remote_version)
         IN  [proc |-> "check", status |-> "decided", rc |-> 0,
              force_download |-> force_download, fault |-> fault,
              api_modified_date |-> api_modified_date,
              remote_version |-> remote_version,
              current_version |-> current_version,
              current_api_date |-> current_api_date,
              has_update |-> has_update,
              outputs |-> DecidedOutputs(has_update, remote_version, current_version,
                                         api_modified_date)]

Check(force_download, fault) ==
    /\ run' = CheckRun(force_download, fault)
    /\ UNCHANGED <<remote_date, remote_release, metadata_file, release_txt, now,
                   remote_changes, sync_log>>
    /\ UNCHANGED notPipeVars

(***************************************************************************)
(* sync_cns11643: CNS11643Syncer.sync and main                             *)
(***************************************************************************)
\* how the processing of one file ends: "ok"; "http_error", the GET raises
\* before the local file is opened; "stream_error", the body stream raises
\* after open(local_path, 'wb') truncated the file; "extract_error", the
\* archive is downloaded and its extraction raises
FileOutcomes == {"ok", "http_error", "stream_error", "extract_error"}

IsZip(filename) == filename \in {"MapingTables.zip", "Properties.zip"}

\* _download_and_process: the result (file_info or None) and release.txt
\* on disk afterwards.  The trees under Tables/ are modelled by the
\* extraction actions below.
download_and_process(filename, outcome, release, disk_release, t) ==
    LET content == RemoteContent(filename, release)
        raised == outcome \in {"http_error", "stream_error"}
                    \/ (outcome = "extract_error" /\ IsZip(filename))
    IN  [result |-> IF raised THEN [none |-> TRUE]
                    ELSE [none |-> FALSE, sha256 |-> content, size |-> Len(content),
                          downloaded_at |-> t],
         release_txt |-> IF filename # "release.txt" \/ outcome = "http_error"
                         THEN disk_release
                         ELSE IF outcome = "stream_error" THEN TextFile(<<>>)
                         ELSE TextFile(content)]

\* the for loop of sync: st = [attempted, keys, downloaded_files, release_txt]
RECURSIVE DownloadLoop(_, _, _, _, _)
DownloadLoop(files, outcomes, release, t, st) ==
    IF files = <<>> THEN st
    ELSE LET filename == Head(files)
             r == download_and_process(filename, outcomes[filename], release, st.release_txt, t)
         IN  DownloadLoop(Tail(files), outcomes, release, t,
                 [attempted |-> Append(st.attempted, filename),
                  keys |-> IF r.result.none THEN st.keys ELSE Append(st.keys, filename),
                  downloaded_files |->
                      IF r.result.none THEN st.downloaded_files
                      ELSE Update(st.downloaded_files, [f \in {filename} |-> r.result]),
                  release_txt |-> r.release_txt])

\* _load_metadata (the malformed case raises and is handled by SyncRun)
load_metadata(file) ==
    IF file.kind = "json" THEN file.data ELSE [sync_history |-> <<>>]

\* ([history_entry] + metadata.get('sync_history', []))[:10]
TruncateOneLate(history_entry, history) == SubSeq(<<history_entry>> \o history, 1, SetMin({HistoryLimit + 1, Len(history) + 1}))
PrependHistory(history_entry, history) == SubSeq(<<history_entry>> \o history, 1, SetMin({HistoryLimit, Len(history) + 1}))

\* _update_metadata: the dict written to sync_metadata.json
update_metadata_previous_after_update(metadata, keys, downloaded_files, disk_release, env_date, t) ==
    LET release_version == parse_release_version(disk_release)
        updated == Update(metadata, [last_sync |-> t, api_modified_date |-> env_date,
                                     release_version |-> release_version,
                                     files |-> downloaded_files])
        history_entry == [date |-> t,
                          previous_version |-> Get(updated, "release_version", <<>>),
                          new_version |-> release_version,
                          changed_files |-> keys]
    IN  Update(updated, [sync_history |->
            SubSeq(<<history_entry>> \o Get(metadata, "sync_history", <<>>), 1,
                   SetMin({HistoryLimit, Len(Get(metadata, "sync_history", <<>>)) + 1}))])
update_metadata(metadata, keys, downloaded_files, disk_release, env_date, t) ==
    LET release_version == parse_release_version(disk_release)
        api_modified_date == env_date
        history_entry == [date |-> t,
                          previous_version |-> Get(metadata, "release_version", <<>>),
                          new_version |-> release_version,
                          changed_files |-> keys]
        updated == Update(metadata, [last_sync |-> t,
                                     api_modified_date |-> api_modified_date,
                                     release_version |-> release_version,
                                     files |-> downloaded_files])
    IN  Update(updated, [sync_history |->
            PrependHistory(history_entry, Get(metadata, "sync_history", <<>>))])

\* one run of main: outcomes[f] is how the processing of file f ends,
\* env_date the API_MODIFIED_DATE of the process environment.  The run
\* record also notes which process ran before and what the remote served.
Sync(outcomes, env_date) ==
    /\ now' = now + 1
    /\ IF metadata_file.kind = "malformed"
       THEN \* json.load raises in _load_metadata; nothing catches it
            /\ run' = [proc |-> "sync", status |-> "exception", rc |-> 1,
                       outcomes |-> outcomes, attempted |-> <<>>, keys |-> <<>>,
                       before |-> metadata_file, after_proc |-> run.proc,
                       remote |-> <<remote_date, remote_release>>]
            /\ UNCHANGED <<metadata_file, release_txt, sync_log>>
       ELSE LET metadata == load_metadata(metadata_file)
                st == DownloadLoop(sync_files, outcomes, remote_release, now + 1,
                          [attempted |-> <<>>, keys |-> <<>>,
                           downloaded_files |-> EmptyDict, release_txt |-> release_txt])
                success == st.keys # <<>>
            IN  /\ release_txt' = st.release_txt
                /\ sync_log' = IF success THEN Append(sync_log, now + 1) ELSE sync_log
                /\ metadata_file' =
                       IF success
                       THEN JsonFile(update_metadata(metadata, st.keys, st.downloaded_files,
                                                     st.release_txt, env_date, now + 1))
                       ELSE metadata_file
                /\ run' = [proc |-> "sync", status |-> "returned",
                           rc |-> IF success THEN 0 ELSE 1,
                           outcomes |-> outcomes, attempted |-> st.attempted,
                           keys |-> st.keys, before |-> metadata_file,
                           after_proc |-> run.proc,
                           remote |-> <<remote_date, remote_release>>]
    /\ UNCHANGED <<remote_date, remote_release, remote_changes>>
    /\ UNCHANGED notPipeVars

(***************************************************************************)
(* Two runs of sync against the same root path.  Nothing in sync takes a   *)
(* lock, so the steps of one run (load the metadata, process the files,    *)
(* write the metadata) may fall between the steps of the other.            *)
(***************************************************************************)
Runs == {"first", "second"}
NotStarted == [pc |-> "start"]

\* the metadata a run passes to _update_metadata: the dict it loaded at its start
metadata_reloaded(loaded, file) == load_metadata(file)
metadata_to_update(loaded, file) == loaded

\* metadata = self._load_metadata()
RaceLoad(p) ==
    /\ procs[p].pc = "start"
    /\ now' = now + 1
    /\ procs' = [procs EXCEPT ![p] =
                   IF metadata_file.kind = "malformed"
                   THEN [pc |-> "exception", loaded_at |-> now + 1]
                   ELSE [pc |-> "loaded", loaded_at |-> now + 1,
                         metadata |-> load_metadata(metadata_file)]]
    /\ UNCHANGED <<remote_date, remote_release, metadata_file, release_txt, run,
                   remote_changes, sync_log>>
    /\ UNCHANGED <<parseVars, verifyVars, extractVars, formatVars, archiveVars>>

\* the for loop over sync_files, and return False if nothing was downloaded
RaceDownload(p, outcomes) ==
    /\ procs[p].pc = "loaded"
    /\ now' = now + 1
    /\ LET st == DownloadLoop(sync_files, outcomes, remote_release, now + 1,
                     [attempted |-> <<>>, keys |-> <<>>,
                      downloaded_files |-> EmptyDict, release_txt |-> release_txt])
       IN  /\ release_txt' = st.release_txt
           /\ procs' = [procs EXCEPT ![p] =
                          [pc |-> IF st.keys = <<>> THEN "returned_false" ELSE "downloaded",
                           loaded_at |-> procs[p].loaded_at,
                           metadata |-> procs[p].metadata,
                           keys |-> st.keys,
                           downloaded_files |-> st.downloaded_files]]
    /\ UNCHANGED <<remote_date, remote_release, metadata_file, run, remote_changes, sync_log>>
    /\ UNCHANGED <<parseVars, verifyVars, extractVars, formatVars, archiveVars>>

\* self._update_metadata(metadata, downloaded_files) and return True
RaceWrite(p) ==
    /\ procs[p].pc = "downloaded"
    /\ now' = now + 1
    /\ metadata_file' =
           JsonFile(update_metadata(metadata_to_update(procs[p].metadata, metadata_file),
                                    procs[p].keys, procs[p].downloaded_files,
                                    release_txt, remote_date, now + 1))
    /\ sync_log' = Append(sync_log, now + 1)
    /\ procs' = [procs EXCEPT ![p] =
                   [pc |-> "returned_true", loaded_at |-> procs[p].loaded_at,
                    metadata |-> procs[p].metadata, wrote_at |-> now + 1]]
    /\ UNCHANGED <<remote_date, remote_release, release_txt, run, remote_changes>>
    /\ UNCHANGED <<parseVars, verifyVars, extractVars, formatVars, archiveVars>>

(***************************************************************************)
(* verify_data.  A path is the sequence of its components; "Dizheng"       *)
(* stands for the directory named U+5730 U+653F and "Taipei.txt" for a     *)
(* file in it.  fs[p] is "none", "dir", "empty" (a file of length 0) or    *)
(* "data" (a file with content).                                           *)
(***************************************************************************)
REQUIRED_DIRECTORIES ==
    << <<"Tables", "MapingTables">>,
       <<"Tables", "MapingTables", "Big5">>,
       <<"Tables", "MapingTables", "Unicode">>,
       <<"Tables", "MapingTables", "Dizheng">>,
       <<"Tables", "Properties">>,
       <<"Tables", "Properties", "parts">> >>

REQUIRED_FILES ==
    << <<"release.txt">>,
       <<"OpenDataFilesList.csv">>,
       <<"Tables", "MapingTables", "Big5", "CNS2BIG5.txt">>,
       <<"Tables", "MapingTables", "Unicode", "CNS2UNICODE_Unicode BMP.txt">>,
       <<"Tables", "MapingTables", "CNS2DCI.txt">>,
       <<"Tables", "MapingTables", "CNS2TAX.txt">>,
       <<"Tables", "MapingTables", "CNS2INC.txt">>,
       <<"Tables", "MapingTables", "CNS2FIN.txt">>,
       <<"Tables", "Properties", "CNS_phonetic.txt">>,
       <<"Tables", "Properties", "CNS_radical.txt">>,
       <<"Tables", "Properties", "CNS_stroke.txt">>,
       <<"Tables", "Properties", "CNS_cangjie.txt">> >>

\* the files the tests put into the two directories without a required file
OtherFiles ==
    { <<"Tables", "MapingTables", "Dizheng", "Taipei.txt">>,
      <<"Tables", "Properties", "parts", "test.png">> }

FsDirs == {<<"Tables">>} \cup Range(REQUIRED_DIRECTORIES)
FsFiles == Range(REQUIRED_FILES) \cup OtherFiles
FsPaths == FsDirs \cup FsFiles

Parent(path) == SubSeq(path, 1, Len(path) - 1)
IsUnder(path, dir) == Len(path) > Len(dir) /\ SubSeq(path, 1, Len(dir)) = dir

\* full_path.is_dir(), any(full_path.iterdir()), full_path.is_file(),
\* full_path.stat().st_size == 0
is_dir(tree, path) == tree[path] = "dir"
HasEntries(tree, dir) == \E q \in FsPaths : Parent(q) = dir /\ tree[q] # "none"
is_file(tree, path) == tree[path] \in {"empty", "data"}

\* the loop of verify_directories over paths[i..]
RECURSIVE DirErrorsFirstOnly(_, _)
DirErrorsFirstOnly(tree, dirs) ==
    IF dirs = <<>> THEN <<>>
    ELSE IF ~is_dir(tree, Head(dirs)) THEN << <<"missing_dir", Head(dirs)>> >>
    ELSE IF ~HasEntries(tree, Head(dirs)) THEN << <<"empty_dir", Head(dirs)>> >>
    ELSE DirErrorsFirstOnly(tree, Tail(dirs))
RECURSIVE DirErrors(_, _)
DirErrors(tree, dirs) ==
    IF dirs = <<>> THEN <<>>
    ELSE (IF ~is_dir(tree, Head(dirs)) THEN << <<"missing_dir", Head(dirs)>> >>
          ELSE IF ~HasEntries(tree, Head(dirs)) THEN << <<"empty_dir", Head(dirs)>> >>
          ELSE <<>>) \o DirErrors(tree, Tail(dirs))

verify_directories(tree) == DirErrors(tree, REQUIRED_DIRECTORIES)

\* the loop of verify_files
RECURSIVE FileErrors(_, _)
FileErrors(tree, files) ==
    IF files = <<>> THEN <<>>
    ELSE (IF ~is_file(tree, Head(files)) THEN << <<"missing_file", Head(files)>> >>
          ELSE IF tree[Head(files)] = "empty" THEN << <<"empty_file", Head(files)>> >>
          ELSE <<>>) \o FileErrors(tree, Tail(files))

verify_files(tree) == FileErrors(tree, REQUIRED_FILES)

\* verify_metadata on a file that json.load can read
verify_metadata(file) ==
    IF file.kind = "absent" THEN << <<"missing_metadata", <<"sync_metadata.json">>>> >>
    ELSE IF Get(file.data, "release_version", <<>>) = <<>>
    THEN << <<"no_version", <<"sync_metadata.json">>>> >>
    ELSE <<>>

\* one run of verify_data.main with or without --skip-metadata
VerifyRun(skip_metadata) ==
    LET dir_errors == verify_directories(fs)
        file_errors == verify_files(fs)
    IN  IF ~skip_metadata /\ metadata_file.kind = "malformed"
        THEN \* json.load raises in verify_metadata; nothing catches it
             [proc |-> "verify", status |-> "exception", rc |-> 1,
              skip_metadata |-> skip_metadata, result |-> "none",
              dir_errors |-> dir_errors, file_errors |-> file_errors,
              meta_errors |-> <<>>]
        ELSE LET meta_errors == IF skip_metadata THEN <<>>
                                ELSE verify_metadata(metadata_file)
                 all_errors == dir_errors \o file_errors \o meta_errors
             IN  [proc |-> "verify", status |-> "returned",
                  rc |-> IF all_errors = <<>> THEN 0 ELSE 1,
                  skip_metadata |-> skip_metadata,
                  result |-> IF all_errors = <<>> THEN "pass" ELSE "fail",
                  dir_errors |-> dir_errors, file_errors |-> file_errors,
                  meta_errors |-> meta_errors]

Verify(skip_metadata) ==
    /\ run' = VerifyRun(skip_metadata)
    /\ UNCHANGED <<remote_date, remote_release, metadata_file, release_txt, now,
                   remote_changes, sync_log>>
    /\ UNCHANGED notPipeVars

\* the environment before a verification: rm -r of a path, truncation of a file
DeletePath(path) ==
    /\ run.proc = "none"
    /\ fs[path] # "none"
    /\ fs' = [q \in FsPaths |-> IF q = path \/ IsUnder(q, path) THEN "none" ELSE fs[q]]
    /\ fs_edits' = fs_edits + 1
    /\ UNCHANGED <<pipeVars, parseVars, extractVars, restVars>>

TruncateFile(path) ==
    /\ run.proc = "none"
    /\ fs[path] = "data"
    /\ fs' = [fs EXCEPT ![path] = "empty"]
    /\ fs_edits' = fs_edits + 1
    /\ UNCHANGED <<pipeVars, parseVars, extractVars, restVars>>

(***************************************************************************)
(* Archive extraction: CNS11643Syncer._extract_zip and                     *)
(* _extract_nested_zips.  An archive maps the stored name of each entry (a *)
(* path) to [kind |-> "dir"] or [kind |-> "file", content |-> c]; a        *)
(* directory tree maps every path of DiskPaths to such a value or to       *)
(* [kind |-> "none"].  A name component "M:x" is the Big5 name x as the    *)
(* zip library mis-decodes it through CP437, "U:x" is the name x itself,   *)
(* and "X:x" is a name whose CP437 bytes are not valid Big5.               *)
(***************************************************************************)
NoEntry == [kind |-> "none"]
DirEntry == [kind |-> "dir"]
FileEntry(c) == [kind |-> "file", content |-> c]
Plain(id) == [type |-> "plain", id |-> id]
Zip(archive) == [type |-> "zip", entries |-> archive]

NestedZipName == <<"CNS_component_word.zip">>

\* filename_bytes.decode('big5') of info.filename.encode('cp437'), or the
\* stored name when either step raises
Convertible(component) == component \notin {"X:bad.txt"}
Big5Name(component) == IF component = "M:dizheng" THEN "U:dizheng" ELSE component
correct_filename(stored) ==
    IF \A i \in 1..Len(stored) : Convertible(stored[i])
    THEN [i \in 1..Len(stored) |-> Big5Name(stored[i])]
    ELSE stored

\* the archives: two nested ones and the top-level ones built from the
\* optional entries below
NestedA ==
    (<<"parts", "a.png">> :> FileEntry(Plain("y"))) @@
    (<<"parts", "sub", "b.png">> :> FileEntry(Plain("x")))
NestedB ==
    (<<"parts", "sub">> :> DirEntry) @@
    (<<"parts", "sub", "b.png">> :> FileEntry(Plain("y"))) @@
    (<<"X:bad.txt">> :> FileEntry(Plain("x")))
NestedArchives == {NestedA, NestedB}

EntryPath ==
    [a |-> <<"a.txt">>, p |-> <<"parts">>, q |-> <<"parts", "a.png">>,
     m |-> <<"M:dizheng", "t.txt">>, z |-> NestedZipName]
EntryChoices ==
    [a : {NoEntry, FileEntry(Plain("x")), FileEntry(Plain("y"))},
     p : {NoEntry, DirEntry},
     q : {NoEntry, FileEntry(Plain("x")), FileEntry(Plain("y"))},
     m : {NoEntry, FileEntry(Plain("x"))},
     z : {NoEntry} \cup {FileEntry(Zip(n)) : n \in NestedArchives}]
ArchiveOf(choice) ==
    LET present == {k \in DOMAIN EntryPath : choice[k].kind # "none"}
    IN  [path \in {EntryPath[k] : k \in present} |->
            choice[CHOOSE k \in present : EntryPath[k] = path]]
Archives == {ArchiveOf(choice) : choice \in EntryChoices}

Prefixes(path) == {SubSeq(path, 1, n) : n \in 1..Len(path)}
StoredPaths == UNION {DOMAIN a : a \in Archives \cup NestedArchives}
DiskPaths == UNION {Prefixes(correct_filename(path)) : path \in StoredPaths}
EmptyTree == [path \in DiskPaths |-> NoEntry]

\* target_path.mkdir(parents=True, exist_ok=True)
MkdirP(tree, path) ==
    [q \in DiskPaths |-> IF q \in Prefixes(path) THEN DirEntry ELSE tree[q]]

\* the body of the loop over zf.infolist() for one entry
WriteEntry(tree, stored, entry) ==
    LET target_path == correct_filename(stored)
    IN  IF entry.kind = "dir" THEN MkdirP(tree, target_path)
        ELSE [MkdirP(tree, Parent(target_path)) EXCEPT ![target_path] = entry]

\* the loop over zf.infolist(); the entries of an archive have distinct
\* targets, so their order does not matter
RECURSIVE ExtractEntries(_, _, _)
ExtractEntries(tree, archive, todo) ==
    IF todo = {} THEN tree
    ELSE LET stored == CHOOSE path \in todo : TRUE
         IN  ExtractEntries(WriteEntry(tree, stored, archive[stored]), archive,
                            todo \ {stored})

TreeOf(dir) == IF dir.kind = "dir" THEN dir.tree ELSE EmptyTree
DirWith(tree) == [kind |-> "dir", tree |-> tree]

\* _extract_nested_zip_preserve_structure: extraction over what is there
extract_nested_zip_preserve_structure(archive, extract_dir) ==
    DirWith(ExtractEntries(TreeOf(extract_dir), archive, DOMAIN archive))

\* _extract_zip: shutil.rmtree of an existing directory, mkdir, extraction
extract_zip_keeping_old(archive, extract_dir) ==
    extract_nested_zip_preserve_structure(archive, extract_dir)
extract_zip(archive, extract_dir) ==
    LET cleared == DirWith(EmptyTree)
    IN  DirWith(ExtractEntries(cleared.tree, archive, DOMAIN archive))

\* _extract_nested_zips(parent_dir)
extract_nested_zips_clearing(parent_dir) ==
    IF parent_dir.kind = "dir" /\ parent_dir.tree[NestedZipName].kind = "file"
    THEN extract_zip(parent_dir.tree[NestedZipName].content.entries, parent_dir)
    ELSE parent_dir
extract_nested_zips(parent_dir) ==
    IF parent_dir.kind = "dir" /\ parent_dir.tree[NestedZipName].kind = "file"
    THEN LET zip == parent_dir.tree[NestedZipName].content
             extracted == extract_nested_zip_preserve_structure(zip.entries, parent_dir)
         IN  DirWith([extracted.tree EXCEPT ![NestedZipName] = NoEntry])
    ELSE parent_dir

ExtractZip(archive) ==
    /\ dest' = extract_zip(archive, dest)
    /\ ext' = [op |-> "extract_zip", archive |-> archive, before |-> dest]
    /\ UNCHANGED <<pipeVars, parseVars, verifyVars, restVars>>

ExtractNestedZips ==
    /\ dest' = extract_nested_zips(dest)
    /\ ext' = [op |-> "extract_nested_zips", before |-> dest]
    /\ UNCHANGED <<pipeVars, parseVars, verifyVars, restVars>>

(***************************************************************************)
(* _download_and_process on an archive file: the archive file under the    *)
(* root path and the extraction directory Tables/<name without .zip>.      *)
(***************************************************************************)
ZipFiles == {f \in Range(sync_files) : IsZip(f)}
\* what open(local_path, 'wb') holds when the stream raised before its end
PartialBody == [type |-> "partial"]
\* a complete response body that is not a zip archive
NotZipBody == [type |-> "not_zip"]

\* the root file, the extraction directory and the result after one call
download_and_process_archive(filename, body, outcome, local_file, extract_dir) ==
    IF outcome = "http_error"
    THEN \* session.get or raise_for_status raises: nothing was opened
         [none |-> TRUE, local_file |-> local_file, extract_dir |-> extract_dir]
    ELSE IF outcome = "stream_error"
    THEN \* iter_content raises inside `with open(local_path, 'wb')`
         [none |-> TRUE, local_file |-> FileEntry(PartialBody), extract_dir |-> extract_dir]
    ELSE IF body.type # "zip"
    THEN \* _extract_zip removes and recreates extract_dir, then
         \* zipfile.ZipFile(zip_path) raises BadZipFile
         [none |-> TRUE, local_file |-> FileEntry(body), extract_dir |-> DirWith(EmptyTree)]
    ELSE LET extracted == extract_zip(body.entries, extract_dir)
         IN  [none |-> FALSE,
              local_file |-> NoEntry,
              extract_dir |-> IF filename = "Properties.zip"
                              THEN extract_nested_zips(extracted) ELSE extracted]

ProcessArchive(filename, body, outcome) ==
    /\ outcome = "extract_error" <=> body.type # "zip"
    /\ LET r == download_and_process_archive(filename, body, outcome,
                                             root_zips[filename], tables[filename])
       IN  /\ root_zips' = [root_zips EXCEPT ![filename] = r.local_file]
           /\ tables' = [tables EXCEPT ![filename] = r.extract_dir]
           /\ processed' = [op |-> "download_and_process", filename |-> filename,
                            outcome |-> outcome, none |-> r.none,
                            local_file_before |-> root_zips[filename],
                            extract_dir_before |-> tables[filename]]
    /\ UNCHANGED <<pipeVars, parseVars, verifyVars, extractVars, formatVars, raceVars>>

(***************************************************************************)
(* CNS11643Syncer._format_size.  A byte count is the sequence of its       *)
(* digits in base 1024, lowest first; with as many digits as there are     *)
(* units it is below 1024^5 = 2^50, so float(size) and every division by   *)
(* 1024 are exact.  After k divisions size_float has the digits above the  *)
(* k-th as its integer part and the k lowest digits as its fraction.       *)
(* The string f"{x:.1f} {unit}" is the pair of x in tenths and the unit.   *)
(***************************************************************************)
Kilo == 1024
LoopUnits == <<"B", "KB", "MB", "GB">>
LastUnit == "TB"

\* the integer whose digits are ds, lowest first
RECURSIVE DigitsValue(_)
DigitsValue(ds) == IF ds = <<>> THEN 0 ELSE Head(ds) + Kilo * DigitsValue(Tail(ds))

\* the integer part of size_float after k divisions
IntegerPart(digits, k) == DigitsValue(SubSeq(digits, k + 1, Len(digits)))
\* size_float < 1024 after k divisions: no digit above the lowest of the
\* integer part
BelowKilo(digits, k) == \A j \in (k + 2)..Len(digits) : digits[j] = 0

\* ten times the number with digits ds: its digits in rest, the overflow in carry
RECURSIVE TimesTen(_, _)
TimesTen(ds, carry) ==
    IF ds = <<>> THEN [carry |-> carry, rest |-> <<>>]
    ELSE LET v == Head(ds) * 10 + carry
             r == TimesTen(Tail(ds), v \div Kilo)
         IN  [carry |-> r.carry, rest |-> <<v % Kilo>> \o r.rest]

\* the fraction 0.rest compared with one half
AboveHalf(rest) ==
    /\ rest # <<>>
    /\ \/ rest[Len(rest)] > Kilo \div 2
       \/ rest[Len(rest)] = Kilo \div 2 /\ \E j \in 1..(Len(rest) - 1) : rest[j] # 0
ExactlyHalf(rest) ==
    /\ rest # <<>>
    /\ rest[Len(rest)] = Kilo \div 2
    /\ \A j \in 1..(Len(rest) - 1) : rest[j] = 0

\* f"{size_float:.1f}" rounds the exact value to the nearest tenth, a tie to
\* the even one
OneDecimalTruncating(digits, k) == IntegerPart(digits, k) * 10 + TimesTen(SubSeq(digits, 1, k), 0).carry
OneDecimal(digits, k) ==
    LET t == TimesTen(SubSeq(digits, 1, k), 0)
        down == IntegerPart(digits, k) * 10 + t.carry
    IN  IF AboveHalf(t.rest) \/ (ExactlyHalf(t.rest) /\ down % 2 = 1)
        THEN down + 1 ELSE down

\* the loop over the units: size_float < 1024 returns, else size_float /= 1024
RECURSIVE FormatLoop(_, _, _)
FormatLoop(digits, units, k) ==
    IF units = <<>> THEN [tenths |-> OneDecimal(digits, k), unit |-> LastUnit]
    ELSE IF BelowKilo(digits, k)
    THEN [tenths |-> OneDecimal(digits, k), unit |-> Head(units)]
    ELSE FormatLoop(digits, Tail(units), k + 1)

format_size(digits) == FormatLoop(digits, LoopUnits, 0)

\* one call of _format_size
FormatSize ==
    /\ ~formatted.done
    /\ formatted' = [done |-> TRUE, out |-> format_size(size)]
    /\ UNCHANGED size
    /\ UNCHANGED <<pipeVars, parseVars, verifyVars, extractVars, raceVars, archiveVars>>

(***************************************************************************)
(* The environment: the remote site publishes a new release.               *)
(***************************************************************************)
RemoteChange(date, release) ==
    /\ <<date, release>> # <<remote_date, remote_release>>
    /\ remote_date' = date
    /\ remote_release' = release
    /\ remote_changes' = remote_changes + 1
    /\ UNCHANGED <<metadata_file, release_txt, run, now, sync_log>>
    /\ UNCHANGED notPipeVars

(***************************************************************************)
(* Specifications.                                                         *)
(***************************************************************************)
NoRun == [proc |-> "none"]
ParseIdle == text = <<>> /\ parsed = [remote_done |-> FALSE, local_done |-> FALSE]
CompleteTree == [q \in FsPaths |-> IF q \in FsDirs THEN "dir" ELSE "data"]
VerifyIdle == fs = CompleteTree /\ fs_edits = 0
ExtractIdle == dest = Absent /\ ext = [op |-> "none"]
FormatIdle == size = <<>> /\ formatted = [done |-> FALSE]
RaceIdle == procs = <<>>
ArchiveIdle == root_zips = <<>> /\ tables = <<>> /\ processed = [op |-> "none"]
RestIdle == FormatIdle /\ RaceIdle /\ ArchiveIdle

\* the outcome vectors a run is given
AllOk == [f \in Range(sync_files) |-> "ok"]
Only(f, outcome) == [AllOk EXCEPT ![f] = outcome]
AllFail == [f \in Range(sync_files) |-> "http_error"]
SyncOutcomes ==
    {AllOk, AllFail, Only("release.txt", "http_error"), Only("release.txt", "stream_error"),
     Only("MapingTables.zip", "extract_error"),
     [AllFail EXCEPT !["OpenDataFilesList.csv"] = "ok"]}

Init ==
    /\ remote_date \in RemoteDates
    /\ remote_release \in Releases
    /\ metadata_file \in {Absent, Malformed}
    /\ release_txt = Absent
    /\ run = NoRun
    /\ now = 0
    /\ remote_changes = 0
    /\ sync_log = <<>>
    /\ ParseIdle /\ VerifyIdle /\ ExtractIdle /\ RestIdle

Next ==
    \/ \E force_download \in BOOLEAN, fault \in FetchFaults : Check(force_download, fault)
    \/ now < MaxSyncs /\ \E outcomes \in SyncOutcomes, env_date \in {"", remote_date} :
           Sync(outcomes, env_date)
    \/ remote_changes < MaxRemoteChanges /\ \E date \in RemoteDates, release \in Releases :
           RemoteChange(date, release)

Spec == Init /\ [][Next]_vars

\* long runs of the syncer against a repository that starts without metadata
HistoryOutcomes == {AllOk, AllFail}
HistoryInit ==
    /\ remote_date \in RemoteDates
    /\ remote_release \in {RelFullwidth, RelNoVersion}
    /\ metadata_file = Absent
    /\ release_txt = Absent
    /\ run = NoRun
    /\ now = 0
    /\ remote_changes = 0
    /\ sync_log = <<>>
    /\ ParseIdle /\ VerifyIdle /\ ExtractIdle /\ RestIdle

HistoryNext ==
    now < MaxHistorySyncs /\ \E outcomes \in HistoryOutcomes : Sync(outcomes, remote_date)

SpecHistory == HistoryInit /\ [][HistoryNext]_vars

(***************************************************************************)
(* The parser on every text of at most MaxTextLen tokens.                  *)
(***************************************************************************)
Alphabet == {"VER", "FC", ":", "1", " ", "\n", "\f"}
Texts == UNION {[1..n -> Alphabet] : n \in 0..MaxTextLen}

PipeIdle ==
    /\ remote_date = ""
    /\ remote_release = <<>>
    /\ metadata_file = Absent
    /\ release_txt = Absent
    /\ run = NoRun
    /\ now = 0
    /\ remote_changes = 0
    /\ sync_log = <<>>

ParseInit ==
    /\ text \in Texts
    /\ parsed = [remote_done |-> FALSE, local_done |-> FALSE]
    /\ PipeIdle /\ VerifyIdle /\ ExtractIdle /\ RestIdle

\* check_update.get_remote_release_version on a response body `text`
ParseRemote ==
    /\ ~parsed.remote_done
    /\ parsed' = [parsed EXCEPT !.remote_done = TRUE] @@
                     [remote |-> get_remote_release_version(text)]
    /\ UNCHANGED text
    /\ UNCHANGED notParseVars

\* CNS11643Syncer._parse_release_version on a release.txt holding `text`
ParseLocal ==
    /\ ~parsed.local_done
    /\ parsed' = [parsed EXCEPT !.local_done = TRUE] @@
                     [local |-> parse_release_version(TextFile(text)),
                      local_absent |-> parse_release_version(Absent)]
    /\ UNCHANGED text
    /\ UNCHANGED notParseVars

ParseNext == ParseRemote \/ ParseLocal

SpecParse == ParseInit /\ [][ParseNext]_vars

(***************************************************************************)
(* The verifier on the trees MaxEdits changes away from a complete one.    *)
(***************************************************************************)
\* the metadata the syncer writes on a first run, with and without a
\* version line in release.txt
FirstMetadata(release) ==
    JsonFile(update_metadata(load_metadata(Absent), <<"release.txt">>,
        [f \in {"release.txt"} |-> download_and_process("release.txt", "ok", release, Absent, 1).result],
        TextFile(release), "", 1))
VerifyMetadataFiles ==
    {Absent, Malformed, FirstMetadata(RelFullwidth), FirstMetadata(RelNoVersion)}

VerifyInit ==
    /\ remote_date = ""
    /\ remote_release = <<>>
    /\ metadata_file \in VerifyMetadataFiles
    /\ release_txt = Absent
    /\ run = NoRun
    /\ now = 0
    /\ remote_changes = 0
    /\ sync_log = <<>>
    /\ ParseIdle /\ VerifyIdle /\ ExtractIdle /\ RestIdle

VerifyNext ==
    \/ \E skip_metadata \in BOOLEAN : Verify(skip_metadata)
    \/ fs_edits < MaxEdits /\ \E path \in FsPaths : DeletePath(path)
    \/ fs_edits < MaxEdits /\ \E path \in FsFiles : TruncateFile(path)

SpecVerify == VerifyInit /\ [][VerifyNext]_vars

(***************************************************************************)
(* Extractions into one directory, one after the other.                    *)
(***************************************************************************)
ExtractInit ==
    /\ PipeIdle /\ ParseIdle /\ VerifyIdle /\ ExtractIdle /\ RestIdle

ExtractNext ==
    \/ \E archive \in Archives : ExtractZip(archive)
    \/ ExtractNestedZips

SpecExtract == ExtractInit /\ [][ExtractNext]_vars

(***************************************************************************)
(* _format_size on byte counts below 1024^5.                               *)
(***************************************************************************)
\* the digits tried: the ends of the range, the ties of the rounding (a
\* quarter, a half and three quarters of 1024) and 500 of the test
DigitValues == {0, 1, 256, 500, 512, 768, 1023}
Sizes == [1..(Len(LoopUnits) + 1) -> DigitValues]

FormatInit ==
    /\ size \in Sizes
    /\ formatted = [done |-> FALSE]
    /\ PipeIdle /\ ParseIdle /\ VerifyIdle /\ ExtractIdle /\ RaceIdle /\ ArchiveIdle

FormatNext == FormatSize

SpecFormat == FormatInit /\ [][FormatNext]_vars

(***************************************************************************)
(* Two sync runs started against the same root path.                       *)
(***************************************************************************)
RaceOutcomes == {AllOk, AllFail, Only("release.txt", "http_error")}

RaceInit ==
    /\ remote_date \in RemoteDates
    /\ remote_release \in {RelFullwidth, RelAscii}
    /\ \/ metadata_file = Absent /\ release_txt = Absent
       \/ metadata_file = FirstMetadata(RelFullwidth) /\ release_txt = TextFile(RelFullwidth)
       \/ metadata_file = Malformed /\ release_txt = Absent
    /\ run = NoRun
    /\ now = 0
    /\ remote_changes = 0
    /\ sync_log = <<>>
    /\ procs = [p \in Runs |-> NotStarted]
    /\ ParseIdle /\ VerifyIdle /\ ExtractIdle /\ FormatIdle /\ ArchiveIdle

RaceNext ==
    \/ \E p \in Runs : RaceLoad(p)
    \/ \E p \in Runs, outcomes \in RaceOutcomes : RaceDownload(p, outcomes)
    \/ \E p \in Runs : RaceWrite(p)

SpecRace == RaceInit /\ [][RaceNext]_vars

(***************************************************************************)
(* The archive files of sync_files processed again and again.              *)
(***************************************************************************)
ProcessArchives ==
    {ArchiveOf(choice) : choice \in
        {ch \in EntryChoices : /\ ch.a # FileEntry(Plain("y"))
                               /\ ch.p = NoEntry /\ ch.q = NoEntry /\ ch.m = NoEntry
                               /\ ch.z # FileEntry(Zip(NestedB))}}
ProcessBodies == {Zip(archive) : archive \in ProcessArchives} \cup {NotZipBody}

ProcessInit ==
    /\ root_zips = [f \in ZipFiles |-> NoEntry]
    /\ tables = [f \in ZipFiles |-> Absent]
    /\ processed = [op |-> "none"]
    /\ PipeIdle /\ ParseIdle /\ VerifyIdle /\ ExtractIdle /\ FormatIdle /\ RaceIdle

ProcessNext ==
    \E filename \in ZipFiles, body \in ProcessBodies, outcome \in FileOutcomes :
        ProcessArchive(filename, body, outcome)

SpecProcess == ProcessInit /\ [][ProcessNext]_vars

(***************************************************************************)
(* Properties.                                                             *)
(***************************************************************************)
OutputNames(r) == {r.outputs[i][1] : i \in 1..Len(r.outputs)}
AllOutputNames == {"has_update", "new_version", "current_version", "api_modified_date"}
LocalMetadata == IF metadata_file.kind = "json" THEN metadata_file.data ELSE EmptyDict

(* C1: when both remote fetches succeed and main reaches its decision,      *)
(* has_update is true exactly when the force flag is set, or the local      *)
(* release version is empty or absent, or the remote modified-date differs  *)
(* from the local one, or the remote release version differs from the local *)
(* one; the local values are those of the metadata file, and the decision   *)
(* is what the has_update output carries.                                   *)
C1_Decision ==
    (run.proc = "check" /\ run.fault = "none" /\ metadata_file.kind # "malformed") =>
        /\ run.status = "decided"
        /\ run.current_version = Get(LocalMetadata, "release_version", <<>>)
        /\ run.current_api_date = Get(LocalMetadata, "api_modified_date", "")
        /\ run.has_update =
              (\/ run.force_download
               \/ run.current_version = <<>>
               \/ run.api_modified_date # run.current_api_date
               \/ run.remote_version # run.current_version)
        /\ <<"has_update", BoolStr(run.has_update)>> \in Range(run.outputs)
        /\ <<"has_update", BoolStr(~run.has_update)>> \notin Range(run.outputs)

\* a check that finds a recorded version, equal dates and equal versions
C1_Witness ==
    /\ run.proc = "check" /\ run.status = "decided"
    /\ ~run.force_download
    /\ run.current_version # <<>>
    /\ run.api_modified_date = run.current_api_date
    /\ run.remote_version = run.current_version
    /\ ~run.has_update

(* C2: a run of the update check in which a remote fetch raises ends with   *)
(* a non-zero return code and has_update = false, and emits has_update =    *)
(* true nowhere, whatever the force flag and the local metadata are.        *)
C2_FetchFailure ==
    (run.proc = "check" /\ run.fault # "none") =>
        /\ run.rc # 0
        /\ <<"has_update", "false">> \in Range(run.outputs)
        /\ <<"has_update", "true">> \notin Range(run.outputs)

\* a failed fetch with the force flag set and no local version recorded
C2_Witness ==
    /\ run.proc = "check" /\ run.fault = "release"
    /\ run.force_download
    /\ metadata_file.kind = "absent"

(* C3: every run of sync attempts every configured file in the configured   *)
(* order, returns 0 exactly when at least one file succeeded and 1 exactly  *)
(* when none did, and rewrites the metadata only when it returns 0.         *)
C3_SyncAttemptsAll ==
    run.proc = "sync" =>
        /\ run.status = "returned"
        /\ run.attempted = sync_files
        /\ Range(run.keys) = {f \in Range(sync_files) : run.outcomes[f] = "ok"}
        /\ (run.rc = 0) = (run.keys # <<>>)
        /\ (run.rc = 1) = (run.keys = <<>>)
        /\ (metadata_file # run.before) => run.rc = 0
        /\ (run.rc = 0) => (metadata_file.kind = "json" /\ metadata_file.data.last_sync = now)

(* C4: from no metadata file, after n successful sync runs sync_history     *)
(* holds min(n, 10) entries, the entries of the most recent successful runs *)
(* with the newest first; the oldest is evicted from the 11th run on.       *)
C4_HistoryBounded ==
    LET n == Len(sync_log)
        history == Get(LocalMetadata, "sync_history", <<>>)
    IN  /\ (metadata_file.kind = "json") = (n > 0)
        /\ Len(history) = IF n < 10 THEN n ELSE 10
        /\ \A i \in 1..Len(history) : history[i].date = sync_log[n + 1 - i]

\* eleven or more successful runs: the first run's entry is gone
C4_Witness ==
    /\ Len(sync_log) >= 11
    /\ metadata_file.kind = "json"
    /\ Len(metadata_file.data.sync_history) = 10
    /\ \A i \in 1..10 : metadata_file.data.sync_history[i].date # sync_log[1]

(* C7 as stated: every run of the update check emits all four outputs,     *)
(* however it ends.                                                         *)
C7_AlwaysFourOutputs ==
    run.proc = "check" => OutputNames(run) = AllOutputNames

(* C7 amended: a run of the update check that reaches its decision emits    *)
(* the four outputs, each once, whatever the decision is; a run in which a  *)
(* remote fetch raises emits has_update = false alone, and a run that ends  *)
(* in the exception of an unreadable metadata file emits nothing.           *)
C7_OutputsByEnding ==
    run.proc = "check" =>
        /\ run.status = "decided" =>
              /\ Len(run.outputs) = 4
              /\ OutputNames(run) = AllOutputNames
              /\ <<"new_version", run.remote_version>> \in Range(run.outputs)
              /\ <<"current_version", run.current_version>> \in Range(run.outputs)
              /\ <<"api_modified_date", run.api_modified_date>> \in Range(run.outputs)
        /\ run.status = "fetch_failed" => run.outputs = << <<"has_update", "false">> >>
        /\ run.status = "exception" => run.outputs = <<>>

\* a decided run with the decision "no update" and four outputs
C7_Witness ==
    /\ run.proc = "check" /\ run.status = "decided"
    /\ <<"has_update", "false">> \in Range(run.outputs)
    /\ Len(run.outputs) = 4

(* C8: with a metadata file that holds malformed JSON no run ends in an     *)
(* unhandled exception: the file is read as the empty mapping.              *)
C8_MalformedNotFatal ==
    (metadata_file.kind = "malformed" /\ run.proc \in {"check", "sync"}) =>
        /\ run.status # "exception"
        /\ (run.proc = "check" /\ run.fault = "none") =>
              (run.status = "decided" /\ run.current_version = <<>>)

(***************************************************************************)
(* C6: the parser against its description.                                 *)
(***************************************************************************)
FirstIndex(s, c) == SetMin({i \in 1..Len(s) : s[i] = c})
Delimiter(line) == IF "FC" \in Range(line) THEN "FC" ELSE ":"
AfterFirst(line, d) == SubSeq(line, FirstIndex(line, d) + 1, Len(line))
UpToNext(s, d) == IF d \in Range(s) THEN SubSeq(s, 1, FirstIndex(s, d) - 1) ELSE s

\* the lines of t, as index pairs, that hold the marker; B are the boundaries
MarkerLines(t, B) ==
    {ab \in (1..(Len(t) + 1)) \X (0..Len(t)) :
        /\ ab[1] <= ab[2]
        /\ \A i \in ab[1]..ab[2] : t[i] \notin B
        /\ ab[1] = 1 \/ t[ab[1] - 1] \in B
        /\ ab[2] = Len(t) \/ t[ab[2] + 1] \in B
        /\ HasMarker(SubSeq(t, ab[1], ab[2]))}
FirstMarkerLine(t, B) ==
    LET ab == CHOOSE x \in MarkerLines(t, B) : \A y \in MarkerLines(t, B) : x[1] <= y[1]
    IN  SubSeq(t, ab[1], ab[2])

\* the text after the first delimiter of the first marker line, trimmed
TextAfterDelimiter(t, B) ==
    IF MarkerLines(t, B) = {} THEN <<>>
    ELSE LET line == FirstMarkerLine(t, B)
         IN  Strip(AfterFirst(line, Delimiter(line)))
\* the text between its first and its second delimiter, trimmed
TextBetweenDelimiters(t, B) ==
    IF MarkerLines(t, B) = {} THEN <<>>
    ELSE LET line == FirstMarkerLine(t, B)
             d == Delimiter(line)
         IN  Strip(UpToNext(AfterFirst(line, d), d))

(* C6 as stated: both variants return the trimmed text after the first      *)
(* matching delimiter (fullwidth colon, else ASCII colon) of the first line *)
(* that holds the marker, '' without such a line, and agree.                *)
C6_TextAfterDelimiter ==
    /\ parsed.remote_done => parsed.remote = TextAfterDelimiter(text, {"\n"})
    /\ parsed.local_done => parsed.local = TextAfterDelimiter(text, {"\n"})
    /\ (parsed.remote_done /\ parsed.local_done) => parsed.remote = parsed.local

(* C6 amended: each variant returns the trimmed text between the first and  *)
(* the second occurrence (or the line's end) of the delimiter, fullwidth    *)
(* colon if the line holds one, else ASCII colon, on the first of its lines *)
(* that holds the marker, and '' without such a line or file.  The remote   *)
(* variant breaks lines at every str.splitlines boundary, the local one at  *)
(* newlines only: they agree on every text without a form feed.  The two    *)
(* marker forms followed by a version yield that version.                   *)
C6_TextBetweenDelimiters ==
    /\ parsed.remote_done => parsed.remote = TextBetweenDelimiters(text, {"\n", "\f"})
    /\ parsed.local_done =>
          (parsed.local = TextBetweenDelimiters(text, {"\n"}) /\ parsed.local_absent = <<>>)
    /\ (parsed.remote_done /\ parsed.local_done /\ "\f" \notin Range(text)) =>
          parsed.remote = parsed.local
    /\ (parsed.remote_done /\ parsed.local_done
           /\ text \in {<<"VER", "FC", "1", "1">>, <<"VER", ":", "1", "1">>}) =>
          (parsed.remote = <<"1", "1">> /\ parsed.local = <<"1", "1">>)

\* a marker line with a second delimiter, parsed by both variants
C6_Witness ==
    /\ parsed.remote_done /\ parsed.local_done
    /\ text = <<"VER", "FC", "1", "FC", "1">>
    /\ parsed.remote = <<"1">> /\ parsed.local = <<"1">>

(***************************************************************************)
(* C5, C9, C10.                                                            *)
(***************************************************************************)
OffendingDirs ==
    {d \in Range(REQUIRED_DIRECTORIES) :
        fs[d] # "dir" \/ ~\E q \in FsPaths : IsUnder(q, d) /\ fs[q] # "none"}
OffendingFiles == {f \in Range(REQUIRED_FILES) : fs[f] # "data"}
MetadataHasVersion ==
    metadata_file.kind = "json" /\ Get(metadata_file.data, "release_version", <<>>) # <<>>
ErrorPaths(errors) == {errors[i][2] : i \in 1..Len(errors)}

(* C5: a run of verify_data passes exactly when every required directory    *)
(* exists and is non-empty, every required file exists with content and,    *)
(* unless skip_metadata is set, the metadata file exists with a non-empty   *)
(* release_version; the directory check and the file check each report one  *)
(* error for each offending path, and with skip_metadata set the run        *)
(* returns and its result does not depend on the metadata file.             *)
C5_VerifyPass ==
    run.proc = "verify" =>
        /\ (run.result = "pass") =
              (/\ OffendingDirs = {}
               /\ OffendingFiles = {}
               /\ run.skip_metadata \/ MetadataHasVersion)
        /\ (run.rc = 0) = (run.result = "pass")
        /\ ErrorPaths(run.dir_errors) = OffendingDirs
        /\ Len(run.dir_errors) = Cardinality(OffendingDirs)
        /\ ErrorPaths(run.file_errors) = OffendingFiles
        /\ Len(run.file_errors) = Cardinality(OffendingFiles)
        /\ run.skip_metadata =>
              /\ run.status = "returned"
              /\ run.meta_errors = <<>>
              /\ (run.result = "pass") = (OffendingDirs = {} /\ OffendingFiles = {})
        /\ (~run.skip_metadata /\ run.status = "returned") =>
              Len(run.meta_errors) = IF MetadataHasVersion THEN 0 ELSE 1

\* a run that reports several directories and several files at once
C5_Witness ==
    /\ run.proc = "verify" /\ ~run.skip_metadata
    /\ Len(run.dir_errors) >= 2
    /\ Len(run.file_errors) >= 2
    /\ run.result = "fail"

\* what an archive puts at a path: its entry, a directory above one, nothing
Supplied(archive, path) ==
    IF \E s \in DOMAIN archive : correct_filename(s) = path
    THEN archive[CHOOSE s \in DOMAIN archive : correct_filename(s) = path]
    ELSE IF \E s \in DOMAIN archive : path \in Prefixes(correct_filename(s))
    THEN DirEntry
    ELSE NoEntry

(* C9: after _extract_zip of archive A into D, D holds exactly the entries  *)
(* of A (and the directories above them), whatever D held before: nothing   *)
(* of an earlier extraction, of the same or of another archive, is left.    *)
C9_ExtractExact ==
    ext.op = "extract_zip" =>
        /\ dest.kind = "dir"
        /\ \A path \in DiskPaths : dest.tree[path] = Supplied(ext.archive, path)

\* an extraction over a directory that held a file the archive lacks
C9_Witness ==
    /\ ext.op = "extract_zip"
    /\ ext.before.kind = "dir"
    /\ \E path \in DiskPaths :
          /\ ext.before.tree[path].kind = "file"
          /\ Supplied(ext.archive, path).kind = "none"
          /\ dest.tree[path].kind = "none"

(* C10: _extract_nested_zips on a directory D that holds the nested archive *)
(* writes every entry of that archive under D at its relative path, leaves  *)
(* every other path of D as it was, and deletes the nested archive; without *)
(* the nested archive D is unchanged.                                       *)
C10_NestedFrame ==
    ext.op = "extract_nested_zips" =>
        IF ext.before.kind = "dir" /\ ext.before.tree[NestedZipName].kind = "file"
        THEN LET nested == ext.before.tree[NestedZipName].content.entries
             IN  /\ dest.kind = "dir"
                 /\ \A path \in DiskPaths :
                       dest.tree[path] =
                           IF path = NestedZipName THEN NoEntry
                           ELSE IF Supplied(nested, path).kind # "none"
                           THEN Supplied(nested, path)
                           ELSE ext.before.tree[path]
        ELSE dest = ext.before

\* a nested extraction that keeps one file, overwrites another and adds one
C10_Witness ==
    /\ ext.op = "extract_nested_zips"
    /\ ext.before.kind = "dir"
    /\ ext.before.tree[NestedZipName].kind = "file"
    /\ ext.before.tree[<<"a.txt">>].kind = "file"
    /\ dest.tree[<<"a.txt">>] = ext.before.tree[<<"a.txt">>]
    /\ ext.before.tree[<<"parts", "a.png">>] = FileEntry(Plain("x"))
    /\ dest.tree[<<"parts", "a.png">>] = FileEntry(Plain("y"))
    /\ ext.before.tree[<<"parts", "sub", "b.png">>].kind = "none"
    /\ dest.tree[<<"parts", "sub", "b.png">>].kind = "file"
    /\ dest.tree[NestedZipName].kind = "none"

(***************************************************************************)
(* C11: the unit and the value _format_size reports.                       *)
(***************************************************************************)
AllUnits == LoopUnits \o <<LastUnit>>
\* the smallest k with size < 1024^(k+1), and the last index if there is none
UnitIndex(digits) ==
    SetMin({k \in 0..(Len(AllUnits) - 1) :
               \/ k = Len(AllUnits) - 1
               \/ \A j \in (k + 2)..Len(digits) : digits[j] = 0})
\* ten times the byte count, as digits
TenfoldDigits(digits) == LET t == TimesTen(digits, 0) IN t.rest \o <<t.carry>>
\* the reported tenths are the tenths of size / 1024^k nearest to it
NearestTenth(digits, k, tenths) ==
    LET tenfold == TenfoldDigits(digits)
        down == DigitsValue(SubSeq(tenfold, k + 1, Len(tenfold)))
        rest == SubSeq(tenfold, 1, k)
    IN  \/ tenths = down /\ ~AboveHalf(rest)
        \/ tenths = down + 1 /\ (AboveHalf(rest) \/ ExactlyHalf(rest))
DigitsOf(n) == <<n % Kilo, (n \div Kilo) % Kilo, n \div (Kilo * Kilo), 0, 0>>
ReportedRight ==
    LET k == UnitIndex(size)
    IN  /\ formatted.out.unit = AllUnits[k + 1]
        /\ NearestTenth(size, k, formatted.out.tenths)
        /\ size = DigitsOf(500) => formatted.out = [tenths |-> 5000, unit |-> "B"]
        /\ size = DigitsOf(1024) => formatted.out = [tenths |-> 10, unit |-> "KB"]
        /\ size = DigitsOf(1048576) => formatted.out = [tenths |-> 10, unit |-> "MB"]

\* C11 as stated: _format_size reports the byte count scaled by 1024^k in
\* the unit of index k, k the smallest index with n < 1024^(k+1) and TB from
\* 1024^4 on, and the value it displays is below 1024 in every unit but TB.
C11_DisplayedBelowKilo ==
    formatted.done =>
        /\ ReportedRight
        /\ formatted.out.unit # LastUnit => formatted.out.tenths < 10 * Kilo

\* C11 amended: the unit and the scaling are as stated; in every unit but TB
\* the scaled value is below 1024 before it is rounded to one decimal, and the
\* displayed value is at most 1024.0, which it is when the byte count is
\* within a twentieth of the unit below the next power of 1024.
C11_ScaledBelowKilo ==
    formatted.done =>
        /\ ReportedRight
        /\ formatted.out.unit # LastUnit =>
              /\ IntegerPart(size, UnitIndex(size)) < Kilo
              /\ formatted.out.tenths <= 10 * Kilo

\* 1048575 bytes are displayed as "1024.0 KB"
C11_Witness ==
    /\ formatted.done
    /\ size = <<Kilo - 1, Kilo - 1, 0, 0, 0>>
    /\ formatted.out = [tenths |-> 10 * Kilo, unit |-> "KB"]

(***************************************************************************)
(* C12: the history entry of a successful sync.                            *)
(***************************************************************************)
SyncHistory == Get(LocalMetadata, "sync_history", <<>>)
\* the files whose processing returned a result in the last sync run
Succeeded == {f \in Range(sync_files) : run.outcomes[f] = "ok"}
SucceededSync == run.proc = "sync" /\ run.status = "returned" /\ run.rc = 0

\* C12: a successful sync prepends exactly one history entry: its
\* previous_version is the release_version the metadata held before the run,
\* its new_version the release_version recorded by the run, its changed_files
\* the files that succeeded, which are the keys of the files mapping; so each
\* entry's previous_version is the new_version of the next older entry.
C12_HistoryEntry ==
    /\ SucceededSync =>
          LET before == load_metadata(run.before)
              old == Get(before, "sync_history", <<>>)
              entry == SyncHistory[1]
          IN  /\ SyncHistory = SubSeq(<<entry>> \o old, 1, Len(SyncHistory))
              /\ Len(SyncHistory) = SetMin({Len(old) + 1, HistoryLimit})
              /\ entry.previous_version = Get(before, "release_version", <<>>)
              /\ entry.new_version = LocalMetadata.release_version
              /\ Range(entry.changed_files) = Succeeded
              /\ Len(entry.changed_files) = Cardinality(Succeeded)
              /\ DOMAIN LocalMetadata.files = Succeeded
    /\ \A i \in 1..(Len(SyncHistory) - 1) :
          SyncHistory[i].previous_version = SyncHistory[i + 1].new_version

\* a second successful sync after the remote published another version
C12_Witness ==
    /\ SucceededSync
    /\ Len(SyncHistory) = 2
    /\ SyncHistory[1].previous_version # <<>>
    /\ SyncHistory[1].new_version # SyncHistory[1].previous_version
    /\ Succeeded # Range(sync_files)

(***************************************************************************)
(* C13: two sync runs against the same root path.                          *)
(***************************************************************************)
BothRecorded == \A p \in Runs : procs[p].pc = "returned_true"
HistoryDates == {SyncHistory[i].date : i \in 1..Len(SyncHistory)}
\* one run loaded the metadata only after the other had written it
OneAfterTheOther ==
    \E p, q \in Runs : p # q /\ procs[p].wrote_at < procs[q].loaded_at
LastWriter == CHOOSE p \in Runs : \A q \in Runs : procs[q].wrote_at <= procs[p].wrote_at

\* C13: nothing keeps two sync runs from interleaving on the metadata file.
\* When both runs succeed, the metadata holds the history entries of both
\* exactly if one run loaded the metadata after the other wrote it; if both
\* loaded before either wrote, the entry of the run that wrote first is lost
\* and only the entry of the last writer is added.
C13_LostHistoryEntry ==
    BothRecorded =>
        /\ OneAfterTheOther <=> Range(sync_log) \subseteq HistoryDates
        /\ ~OneAfterTheOther =>
              /\ Range(sync_log) \cap HistoryDates = {procs[LastWriter].wrote_at}
              /\ Len(SyncHistory) = Len(Get(procs[LastWriter].metadata, "sync_history", <<>>)) + 1

\* both runs loaded, then both wrote: one entry is missing
C13_Witness ==
    /\ BothRecorded
    /\ ~OneAfterTheOther
    /\ Len(sync_log) = 2
    /\ ~(Range(sync_log) \subseteq HistoryDates)

\* the same two runs one after the other: both entries are there
C13_WitnessSequential ==
    /\ BothRecorded
    /\ OneAfterTheOther
    /\ Range(sync_log) \subseteq HistoryDates

(***************************************************************************)
(* C14: an update check after a complete sync.                             *)
(***************************************************************************)
\* the last run was a sync that followed an update check and in which
\* every configured file succeeded, and the remote is what it was then
CompleteSyncAfterCheck ==
    /\ SucceededSync
    /\ run.after_proc = "check"
    /\ run.outcomes = AllOk
    /\ run.remote = <<remote_date, remote_release>>
\* this step is an update check with the force flag off that decides
DecidingCheckStep ==
    /\ run'.proc = "check"
    /\ run'.status = "decided"
    /\ ~run'.force_download

\* C14: after an update check and a sync in which every configured file
\* succeeded, an update check against the unchanged remote with the force
\* flag off decides has_update = false, whatever the remote serves and
\* whether or not the sync run had the modified-date in its environment.
C14_FixedPoint ==
    [][CompleteSyncAfterCheck /\ DecidingCheckStep => ~run'.has_update]_vars

(***************************************************************************)
(* C15: what a failed processing of an archive file leaves on disk.        *)
(***************************************************************************)
FailedProcessing == processed.op = "download_and_process" /\ processed.none

\* C15: when the processing of an archive file yields no result, the
\* contents extracted for it before are unchanged in its destination
\* directory, and no downloaded archive file is left under the root path.
C15_FailureLeavesNoTrace ==
    FailedProcessing =>
        /\ tables[processed.filename] = processed.extract_dir_before
        /\ root_zips[processed.filename] = NoEntry

=============================================================================
